---------------------------- MODULE Spec2Model ----------------------------
(***************************************************************************)
(* State-machine model of the agent-capable vault-ec2auth program          *)
(* (package main in src/readme.md, lines 61-320): the main loop, the DNS   *)
(* availability gate, the login retry loop, the login call itself, the     *)
(* two credential files and the computation of the next renewal time.      *)
(*                                                                         *)
(* Time is an integer number of ticks.  The environment (DNS, the metadata *)
(* endpoint, the Vault server, the file system) is a nondeterministic      *)
(* choice in each step.  The program reads only differences of times, so  *)
(* the origin of the clock is moved to the wake-up time at the start of    *)
(* each pass of the main loop, which keeps the explored times bounded.     *)
(* The variables marked history are not held by the program: they record   *)
(* what its steps did.                                                     *)
(***************************************************************************)
EXTENDS Integers, Sequences, FiniteSets, TLC

\* ------------------------------------------------------------------ bounds
\* login rejections the server may answer in a row within one pass
MaxRetries == 2
\* failed hostname lookups in a row within one pass
MaxLookupFailures == 1
\* passes of the main loop that are explored
MaxPasses == 2
\* config.RetryDelay in ticks (flag retry-delay, any integer)
RetryDelay == 2

\* ------------------------------------------------------- environment sets
Role == "svc-a"
Proofs == {"PROOF1", "PROOF2"}
Tokens == {"", "T1"}
Nonces == {"", "N1", "N2"}
\* a nonce file left by an earlier run or by the operator; "N<ff>" stands for
\* content that is not valid UTF-8
BadUtf8 == "N<ff>"
StoredNonces == {"", "N0", BadUtf8}
Leases == {-3, 0, 4}
Statuses == {199, 200, 299, 300, 400}
ErrorTexts == {"role not found", ""}
LookupResults == {"ok", "dns_not_found", "dns_other", "not_dns_error"}
GetResults == {"ok", "error_no_response", "error_with_response"}
WriteResults == {"ok", "open_failed", "write_failed"}
Umasks == {{"gw", "or", "ow"}}
Perm0660 == {"ur", "uw", "gr", "gw"}

\* ticks the two file writes may take together
Latency == {0, 1}

NoFile == [exists |-> FALSE, data |-> "", mode |-> {}]
NoError == [failed |-> FALSE, status |-> 0, text |-> ""]
WriteError == [failed |-> TRUE, status |-> 0, text |-> "write"]
NoBody == [role |-> ""]
NoResponse == [status |-> 0, text |-> ""]

VARIABLES
    pc,                  \* position of the single thread of control
    agent,               \* config.Agent
    umask,               \* the process's file mode creation mask
    now,                 \* time.Now(), in ticks since this pass woke up
    lease_renewal_time,  \* main's lease_renewal_time
    passes,              \* history: completed passes of the main loop
    tokenFile,           \* the file at config.TokenPath
    nonceFile,           \* the file at config.NoncePath
    pkcs7,               \* vault_ec2_auth's pkcs7
    body,                \* vault_ec2_auth's body, the JSON of the login request
    response,            \* status code and body text of the last login response
    lease,               \* result.Auth.LeaseDuration of the last decoded response
    err,                 \* ec2_auth_against_vault_server's err
    lease_end_time,      \* ec2_auth_against_vault_server's lease_end_time
    vault_token,         \* ec2_auth_against_vault_server's vault_token
    vault_nonce,         \* ec2_auth_against_vault_server's vault_nonce
    cause,               \* history: what ended the process, "" while it runs
    lookups,             \* history: net.LookupHost calls of this pass
    posts,               \* history: login POSTs of this pass
    sleeps,              \* history: retry-delay sleeps of the login loop, this pass
    rejects,             \* history: non-2xx login responses of this pass
    writes,              \* history: ioutil.WriteFile calls of this pass
    prior,               \* history: what the two files held when the last login was accepted
    issued,              \* history: token and nonce of the last accepted login response
    lookup_result,       \* history: how the last net.LookupHost of this pass ended
    resolved,            \* history: a lookup has succeeded since the last login POST
    resolves,            \* history: successful lookups of this pass
    waited               \* history: ticks wait_until_lease_is_expired slept in this pass

vars == <<pc, agent, umask, now, lease_renewal_time, passes, tokenFile,
          nonceFile, pkcs7, body, response, lease, err, lease_end_time,
          vault_token, vault_nonce, cause, lookups, posts, sleeps, rejects, writes,
          prior, issued, lookup_result, resolved, resolves, waited>>

\* ------------------------------------------------------------ pure helpers

\* Go's integer division of a time.Duration: truncation toward zero
GoDiv(a, b) ==
    IF a >= 0 THEN a \div b ELSE -((-a) \div b)

\* get_datetime_midpoint with the else-branch dropped
get_datetime_midpoint_onebranch(time1, time2) ==
    time1 + GoDiv(time2 - time1, 2)

get_datetime_midpoint(time1, time2) ==
    IF time2 > time1
    THEN time1 + GoDiv(time2 - time1, 2)
    ELSE time2 + GoDiv(time1 - time2, 2)

\* the status test with > 300 written for >= 300
StatusIsFailure_off_by_one(code) ==
    code > 300 \/ code < 200

\* the status test with <= 200 written for < 200
StatusIsFailure_low_edge(code) ==
    code >= 300 \/ code <= 200

\* response.StatusCode >= 300 || response.StatusCode < 200
StatusIsFailure(code) ==
    code >= 300 \/ code < 200

\* a sleep that returns at once whatever the duration
SleepTicks_none(d) ==
    0

\* time.Sleep(d): a zero or negative d returns at once
SleepTicks(d) ==
    IF d > 0 THEN d ELSE 0

\* json.Marshal of a Go string: invalid UTF-8 is replaced by U+FFFD
JsonString(s) ==
    IF s = BadUtf8 THEN "N<fffd>" ELSE s

\* get_nonce: os.Stat succeeds on a file that is there, the size test, and
\* ioutil.ReadFile, whose error is dropped and whose result is then empty
get_nonce(file, readOk) ==
    IF file.exists /\ Len(file.data) > 0
    THEN [exists |-> TRUE, nonce |-> IF readOk THEN file.data ELSE ""]
    ELSE [exists |-> FALSE, nonce |-> ""]

\* the ReLoginRequest / LoginRequest literal and json.Marshal
LoginBody(proof, n) ==
    IF n.exists
    THEN [role |-> JsonString(Role), pkcs7 |-> JsonString(proof),
          nonce |-> JsonString(n.nonce)]
    ELSE [role |-> JsonString(Role), pkcs7 |-> JsonString(proof)]

\* check with the exit left out
check_ignores(e, next) ==
    next

\* check(err): log.Fatal when err is not nil
check(e, next) ==
    IF e THEN "fatal" ELSE next

\* the retry loop leaving on an error as on a success
LoginLoopNext_no_retry(e) ==
    "write_token"

\* the loop of the one-shot variant: a failed login is fatal
LoginLoopNext_fatal(e) ==
    IF e THEN "fatal" ELSE "write_token"

\* the for loop of ec2_auth_against_vault_server
LoginLoopNext(e) ==
    IF e THEN "retry_sleep" ELSE "write_token"

\* the gate leaving its loop on a DNS error as on a success
GateNext_leaves_on_dns_error(r) ==
    CASE r \in {"ok", "dns_not_found", "dns_other"} -> "get_pkcs7"
      [] OTHER -> "fatal"

\* the loop of wait_for_active_vault_server: break on success, sleep and
\* look up again on a *net.DNSError, log.Fatal on any other error
GateNext(r) ==
    CASE r = "ok" -> "get_pkcs7"
      [] r \in {"dns_not_found", "dns_other"} -> "lookup"
      [] OTHER -> "fatal"

\* a retry that goes through the availability gate again
RetryNext_through_gate == "lookup"

\* the retry loop calls vault_ec2_auth again, which starts with get_pkcs7
RetryNext == "get_pkcs7"

\* main without its break
MainLoopNext_never_breaks(a) ==
    "sleep"

\* the agent test inverted
MainLoopNext_inverted(a) ==
    IF a THEN "done" ELSE "sleep"

\* if !config.Agent { break }
MainLoopNext(a) ==
    IF ~a THEN "done" ELSE "sleep"

\* ioutil.WriteFile(path, data, 0660): O_WRONLY|O_CREATE|O_TRUNC, then Write
WriteFile(file, data, result, mask) ==
    CASE result = "ok" ->
            [exists |-> TRUE, data |-> data,
             mode |-> IF file.exists THEN file.mode ELSE Perm0660 \ mask]
      [] result = "open_failed" -> file
      [] result = "write_failed" ->
            [exists |-> TRUE, data |-> "",
             mode |-> IF file.exists THEN file.mode ELSE Perm0660 \ mask]

\* what a reader of the file finds: whether it is there, and its bytes
Content(file) == <<file.exists, file.data>>

\* -------------------------------------------------------------------- Init

Init ==
    /\ pc = "sleep"
    /\ agent \in BOOLEAN
    /\ umask \in Umasks
    /\ now = 0
    /\ lease_renewal_time = 0
    /\ passes = 0
    /\ tokenFile = NoFile
    /\ nonceFile \in {NoFile} \cup
          {[exists |-> TRUE, data |-> d, mode |-> {"ur", "uw"}] : d \in StoredNonces}
    /\ pkcs7 = ""
    /\ body = NoBody
    /\ response = NoResponse
    /\ lease = 0
    /\ err = NoError
    /\ lease_end_time = 0
    /\ vault_token = ""
    /\ vault_nonce = ""
    /\ cause = ""
    /\ lookups = 0
    /\ posts = 0
    /\ sleeps = 0
    /\ rejects = 0
    /\ writes = 0
    /\ prior = <<Content(tokenFile), Content(nonceFile)>>
    /\ issued = prior
    /\ lookup_result = ""
    /\ resolved = FALSE
    /\ resolves = 0
    /\ waited = 0

\* ----------------------------------------------------------------- actions

\* main: wait_until_lease_is_expired(lease_renewal_time); the clock's origin
\* moves to the wake-up time
wait_until_lease_is_expired ==
    /\ pc = "sleep"
    /\ passes < MaxPasses
    /\ LET wake == now + SleepTicks(lease_renewal_time - now)
       IN  /\ now' = wake - wake
           /\ lease_renewal_time' = lease_renewal_time - wake
    /\ pc' = "lookup"
    /\ lookups' = 0
    /\ posts' = 0
    /\ sleeps' = 0
    /\ rejects' = 0
    /\ writes' = 0
    /\ lease' = 0
    /\ waited' = SleepTicks(lease_renewal_time - now)
    /\ lookup_result' = ""
    /\ resolves' = 0
    /\ UNCHANGED <<agent, umask, passes, tokenFile, nonceFile, pkcs7, body,
                   response, err, lease_end_time, vault_token, vault_nonce,
                   cause, prior, issued,
                   resolved>>

\* wait_for_active_vault_server: one turn of its loop
wait_for_active_vault_server ==
    /\ pc = "lookup"
    /\ \E r \in LookupResults :
        /\ r \in {"dns_not_found", "dns_other"} => lookups < MaxLookupFailures
        /\ lookups' = lookups + 1
        /\ lookup_result' = r
        /\ resolved' = (resolved \/ r = "ok")
        /\ resolves' = IF r = "ok" THEN resolves + 1 ELSE resolves
        /\ pc' = GateNext(r)
        \* log and time.Sleep(config.RetryDelay) before the next lookup
        /\ now' = IF pc' = "lookup" THEN now + SleepTicks(RetryDelay) ELSE now
        /\ cause' = IF pc' = "fatal" THEN "lookup" ELSE cause
    /\ UNCHANGED <<agent, umask, lease_renewal_time, passes, tokenFile,
                   nonceFile, pkcs7, body, response, lease, err, lease_end_time,
                   vault_token, vault_nonce, posts, sleeps, rejects, writes,
                   prior, issued, waited>>

\* vault_ec2_auth: pkcs7, err := get_pkcs7(); check(err)
get_pkcs7 ==
    /\ pc = "get_pkcs7"
    /\ \E r \in GetResults, proof \in Proofs :
        CASE r = "ok" ->
               /\ pkcs7' = proof
               /\ pc' = "get_nonce"
               /\ UNCHANGED cause
          [] r = "error_no_response" ->
               \* pkcs7Request is nil: the deferred pkcs7Request.Body.Close()
               \* dereferences it and the program panics
               /\ pkcs7' = ""
               /\ pc' = "panic"
               /\ cause' = "identity_fetch"
          [] r = "error_with_response" ->
               /\ pkcs7' = ""
               /\ pc' = check(TRUE, "get_nonce")
               /\ cause' = IF pc' = "fatal" THEN "identity_fetch" ELSE cause
    /\ UNCHANGED <<agent, umask, now, lease_renewal_time, passes, tokenFile,
                   nonceFile, body, response, lease, err, lease_end_time, vault_token,
                   vault_nonce, lookups, posts, sleeps, rejects, writes,
                   prior, issued,
                   lookup_result, resolved, resolves, waited>>

\* vault_ec2_auth: nonceExists, nonce := get_nonce() and the request body
build_request ==
    /\ pc = "get_nonce"
    /\ \E readOk \in BOOLEAN :
        body' = LoginBody(pkcs7, get_nonce(nonceFile, readOk))
    /\ pc' = "post"
    /\ UNCHANGED <<agent, umask, now, lease_renewal_time, passes, tokenFile,
                   nonceFile, pkcs7, response, lease, err, lease_end_time, vault_token,
                   vault_nonce, cause, lookups, posts, sleeps, rejects,
                   writes, prior, issued,
                   lookup_result, resolved, resolves, waited>>

\* vault_ec2_auth: client.Post fails (no connection, or the 10 s timeout);
\* past check the nil response would be dereferenced
post_transport_error ==
    /\ pc = "post"
    /\ posts' = posts + 1
    /\ pc' = check(TRUE, "panic")
    /\ cause' = "post_transport"
    /\ resolved' = FALSE
    /\ UNCHANGED <<agent, umask, now, lease_renewal_time, passes, tokenFile,
                   nonceFile, pkcs7, body, response, lease, err, lease_end_time,
                   vault_token, vault_nonce, lookups, sleeps, rejects,
                   writes, prior, issued,
                   lookup_result, resolves, waited>>

\* vault_ec2_auth: client.Post answers; the status test, the decoding and the
\* return; then the test of err in the loop of ec2_auth_against_vault_server
post_response ==
    /\ pc = "post"
    /\ \E code \in Statuses :
        /\ StatusIsFailure(code) => rejects < MaxRetries
        /\ posts' = posts + 1
        /\ pkcs7' = ""
        /\ body' = NoBody
        /\ IF StatusIsFailure(code)
           THEN \* b, _ := ioutil.ReadAll(response.Body)
                \* return time.Now(), "", "", err
                /\ \E text \in ErrorTexts :
                      /\ response' = [status |-> code, text |-> text]
                      /\ err' = [failed |-> TRUE, status |-> code, text |-> text]
                /\ lease_end_time' = now
                /\ vault_token' = ""
                /\ vault_nonce' = ""
                /\ rejects' = rejects + 1
                /\ pc' = LoginLoopNext(TRUE)
                /\ cause' = IF pc' = "fatal" THEN "login_rejected" ELSE cause
                /\ UNCHANGED <<lease, prior, issued>>
           ELSE \/ \* Decode fails: check(err)
                   /\ response' = [status |-> code, text |-> ""]
                   /\ pc' = check(TRUE, "panic")
                   /\ cause' = "json_decode"
                   /\ UNCHANGED <<lease, err, lease_end_time, vault_token,
                                  vault_nonce, rejects, prior, issued>>
                \/ \* return leaseEndTime, ClientToken, MetaData.Nonce, nil
                   \E token \in Tokens, nonce \in Nonces, l \in Leases :
                      /\ response' = [status |-> code, text |-> ""]
                      /\ lease' = l
                      /\ err' = NoError
                      /\ lease_end_time' = now + l
                      /\ vault_token' = token
                      /\ vault_nonce' = nonce
                      /\ prior' = <<Content(tokenFile), Content(nonceFile)>>
                      /\ issued' = <<<<TRUE, token>>, <<TRUE, nonce>>>>
                      /\ pc' = LoginLoopNext(FALSE)
                      /\ UNCHANGED <<rejects, cause>>
    /\ resolved' = FALSE
    /\ UNCHANGED <<agent, umask, now, lease_renewal_time, passes, tokenFile,
                   nonceFile, lookups, sleeps, writes,
                   lookup_result, resolves, waited>>

\* ec2_auth_against_vault_server: log the error, sleep, call vault_ec2_auth again
retry_sleep ==
    /\ pc = "retry_sleep"
    /\ now' = now + SleepTicks(RetryDelay)
    /\ sleeps' = sleeps + 1
    /\ pc' = RetryNext
    /\ UNCHANGED <<agent, umask, lease_renewal_time, passes, tokenFile,
                   nonceFile, pkcs7, body, response, lease, err, lease_end_time,
                   vault_token, vault_nonce, cause, lookups, posts, rejects,
                   writes, prior, issued,
                   lookup_result, resolved, resolves, waited>>

\* ec2_auth_against_vault_server: WriteFile(config.TokenPath, ...); check(err)
write_token ==
    /\ pc = "write_token"
    /\ \E r \in WriteResults :
        /\ tokenFile' = WriteFile(tokenFile, vault_token, r, umask)
        /\ err' = IF r = "ok" THEN NoError ELSE WriteError
        /\ pc' = check(r # "ok", "write_nonce")
        /\ cause' = IF pc' = "fatal" THEN "write_token" ELSE cause
    /\ writes' = writes + 1
    /\ UNCHANGED <<agent, umask, now, lease_renewal_time, passes, nonceFile,
                   pkcs7, body, response, lease, lease_end_time, vault_token,
                   vault_nonce, lookups, posts, sleeps, rejects, prior,
                   issued,
                   lookup_result, resolved, resolves, waited>>

\* ec2_auth_against_vault_server: WriteFile(config.NoncePath, ...); check(err)
write_nonce ==
    /\ pc = "write_nonce"
    /\ \E r \in WriteResults, lat \in Latency :
        /\ nonceFile' = WriteFile(nonceFile, vault_nonce, r, umask)
        /\ err' = IF r = "ok" THEN NoError ELSE WriteError
        /\ pc' = check(r # "ok", "midpoint")
        /\ cause' = IF pc' = "fatal" THEN "write_nonce" ELSE cause
        /\ now' = now + lat
    /\ writes' = writes + 1
    /\ UNCHANGED <<agent, umask, lease_renewal_time, passes, tokenFile,
                   pkcs7, body, response, lease, lease_end_time, vault_token,
                   vault_nonce, lookups, posts, sleeps, rejects, prior,
                   issued,
                   lookup_result, resolved, resolves, waited>>

\* return get_datetime_midpoint(time.Now(), lease_end_time), the assignment
\* in main and if !config.Agent { break }; the callee's locals are gone
finish_pass ==
    /\ pc = "midpoint"
    /\ lease_renewal_time' = get_datetime_midpoint(now, lease_end_time)
    /\ passes' = passes + 1
    /\ pc' = MainLoopNext(agent)
    /\ response' = NoResponse
    /\ err' = NoError
    /\ lease_end_time' = 0
    /\ vault_token' = ""
    /\ vault_nonce' = ""
    /\ waited' = 0
    /\ UNCHANGED <<agent, umask, now, tokenFile, nonceFile, pkcs7, body,
                   lease, cause, lookups, posts, sleeps, rejects, writes,
                   prior, issued,
                   lookup_result, resolved, resolves>>

Next ==
    \/ wait_until_lease_is_expired
    \/ wait_for_active_vault_server
    \/ get_pkcs7
    \/ build_request
    \/ post_transport_error
    \/ post_response
    \/ retry_sleep
    \/ write_token
    \/ write_nonce
    \/ finish_pass

Spec == Init /\ [][Next]_vars

\* the one goroutine of the program keeps running: a step that can be taken
\* is taken
FairSpec == Spec /\ WF_vars(Next)

\* ------------------------------------------------------------------ claims

Min(a, b) == IF a <= b THEN a ELSE b
Max(a, b) == IF a >= b THEN a ELSE b
OnDisk == <<Content(tokenFile), Content(nonceFile)>>
Persisting == pc \in {"write_token", "write_nonce", "midpoint"}

\* C1: the token file and the nonce file hold the token and the nonce of one
\* accepted login response, or both are as they were when that login was
\* accepted; this also once the process has been ended by a fatal error.
\* Left aside are the moment between the two writes and a token write that
\* itself failed part-way.
C1_FilesOfOneResponse ==
    (pc # "write_nonce" /\ cause # "write_token")
        => OnDisk \in {prior, issued}

\* C2: a step changes the token file or the nonce file only when it is one of
\* the two writes and the last login attempt returned no error with a 2xx
\* status: a rejected attempt, and any number of them in a row, writes nothing.
C2_RejectedLoginWritesNothing ==
    [][(tokenFile' # tokenFile \/ nonceFile' # nonceFile)
         => /\ pc \in {"write_token", "write_nonce"}
            /\ ~err.failed
            /\ response.status \in 200..299]_vars

C2_Witness ==
    /\ pc = "write_token"
    /\ rejects = 2
    /\ OnDisk = prior

\* C3: a rejected login leads to the retry sleep and never ends the process;
\* the retry sleep lasts the retry delay, is counted once and is followed by
\* another attempt; when the files are about to be written after n
\* rejections, n sleeps and n+1 POSTs have happened in this pass.
C3_RejectionSleepsOnceAndRetries ==
    /\ [][(pc = "post" /\ rejects' = rejects + 1) => pc' = "retry_sleep"]_vars
    /\ [][pc = "retry_sleep"
            => /\ pc' = "get_pkcs7"
               /\ now' = now + RetryDelay
               /\ sleeps' = sleeps + 1
               /\ posts' = posts]_vars
    /\ [](pc = "write_token" => (sleeps = rejects /\ posts = rejects + 1))

C3_Witness ==
    /\ pc = "write_token"
    /\ rejects = 2
    /\ sleeps = 2
    /\ posts = 3

\* C4: the process is never ended by a failed identity fetch, by a transport
\* error or timeout of the login POST, or by an undecodable login response.
C4_TransientErrorsNeverFatal ==
    cause \notin {"identity_fetch", "post_transport", "json_decode"}

\* C5: when the login is posted, the request body is {role, pkcs7} if the
\* nonce file is absent or empty, and otherwise {role, pkcs7, nonce} with the
\* nonce file's content as the nonce.
C5_BodyFollowsNonceFile ==
    pc = "post" =>
        body = IF ~nonceFile.exists \/ nonceFile.data = ""
               THEN [role |-> Role, pkcs7 |-> pkcs7]
               ELSE [role |-> Role, pkcs7 |-> pkcs7, nonce |-> nonceFile.data]

\* C6: a response is a login failure exactly when its status is outside
\* 200..299: then the error carries the status and the body text and the
\* token and nonce returned are empty; a response inside 200..299 goes on to
\* the decoding.
C6_FailureIffStatusOutside2xx ==
    /\ pc = "retry_sleep"
         => /\ response.status \notin 200..299
            /\ err = [failed |-> TRUE, status |-> response.status,
                      text |-> response.text]
            /\ vault_token = ""
            /\ vault_nonce = ""
    /\ pc = "write_token" => (response.status \in 200..299 /\ err = NoError)
    /\ cause = "json_decode" => response.status \in 200..299
    /\ response.status # 0 /\ response.status \notin 200..299
         => (err.failed /\ ~Persisting /\ cause # "json_decode")

C6_Witness ==
    /\ pc = "retry_sleep"
    /\ response = [status |-> 300, text |-> "role not found"]
    /\ err.text = "role not found"

\* C7 as stated: a response with a status in 201..299, or of 300 or more, is
\* never accepted.
C7_Only200Accepted ==
    Persisting => ~(response.status \in 201..299 \/ response.status >= 300)

\* C7 as amended: a response with a status of 300 or more is never accepted:
\* nothing of it is persisted, and the attempt is retried; a response with a
\* status in 201..299 is not retried.
C7_Status300UpNeverAccepted ==
    /\ response.status >= 300
         => /\ ~Persisting
            /\ cause \notin {"write_token", "write_nonce", "json_decode"}
            /\ pc \in {"retry_sleep", "get_pkcs7", "get_nonce", "post",
                       "fatal", "panic"}
            /\ vault_token = ""
            /\ vault_nonce = ""
    /\ response.status \in 201..299
         => pc \notin {"retry_sleep", "get_pkcs7", "get_nonce", "post"}

C7_Witness ==
    /\ pc = "post"
    /\ response.status >= 300
    /\ rejects >= 1
    /\ sleeps >= 1

\* C8: the lease end time is the time of the login response plus the lease
\* duration and is kept through the writes; the renewal time returned is
\* earlier + (later - earlier) / 2 of the time after the writes and the lease
\* end time, and get_datetime_midpoint gives it for either order of the two.
C8_RenewalTimeIsMidpoint ==
    /\ [][(pc = "post" /\ pc' = "write_token")
            => lease_end_time' = now' + lease']_vars
    /\ [][(pc \in {"write_token", "write_nonce"} /\ pc' # "fatal")
            => lease_end_time' = lease_end_time]_vars
    /\ [][pc = "midpoint"
            => LET lo == Min(now, lease_end_time)
                   hi == Max(now, lease_end_time)
               IN  /\ lease_renewal_time' = lo + ((hi - lo) \div 2)
                   /\ get_datetime_midpoint(lease_end_time, now)
                        = lease_renewal_time']_vars

C8_Witness ==
    /\ pc \in {"sleep", "done"}
    /\ passes = 1
    /\ lease = 4
    /\ lease_renewal_time = now + 1

\* C9: the pass that persisted both files ends the program when the agent
\* flag is off and leads back to the sleep when it is on; the program only
\* ends normally with the flag off, after one pass, and does nothing after;
\* the sleep ends no earlier than the renewal time, and at it when it lies
\* ahead.
C9_RunOnceOrLoop ==
    /\ [][pc = "midpoint" => pc' = IF agent THEN "sleep" ELSE "done"]_vars
    /\ [](pc = "done" => (~agent /\ passes = 1 /\ OnDisk = issued))
    /\ [][pc # "done"]_vars
    /\ [][pc = "sleep"
            => /\ pc' = "lookup"
               /\ now' >= lease_renewal_time'
               /\ lease_renewal_time > now => now' = lease_renewal_time']_vars

C9_Witness ==
    /\ pc = "done"
    /\ ~agent
    /\ passes = 1
    /\ OnDisk = <<<<TRUE, "T1">>, <<TRUE, "N1">>>>

\* C10: a failed write of either file ends the process in that step, and the
\* ended process takes no further step.
C10_WriteFailureIsFatal ==
    /\ [][(pc \in {"write_token", "write_nonce"} /\ err'.failed)
            => (pc' = "fatal" /\ writes' = writes + 1)]_vars
    /\ [][pc # "fatal"]_vars

C10_Witness ==
    /\ pc = "fatal"
    /\ cause = "write_token"
    /\ agent
    /\ writes = 1
    /\ ~nonceFile.exists

\* C11: when saving the two files ends the process with an error, both writes
\* have been attempted: the error of the first write surfaces only after the
\* second write was tried.
C11_BothWritesAttempted ==
    (pc = "fatal" /\ cause \in {"write_token", "write_nonce"}) => writes = 2

\* C12: in the availability gate a lookup that fails with a name-not-found DNS
\* error is followed by another lookup, a lookup that fails for any other
\* reason ends the process, and the gate is left only after a lookup succeeded.
C12_OnlyNameNotFoundRetried ==
    /\ lookup_result = "dns_not_found" => pc = "lookup"
    /\ lookup_result \in {"dns_other", "not_dns_error"} => pc = "fatal"
    /\ pc \in {"get_pkcs7", "get_nonce", "post", "retry_sleep"}
         => lookup_result = "ok"

\* C13 as stated: every login POST, retries included, is issued after a lookup
\* that succeeded since the previous login POST.
C13_LookupBeforeEveryPost ==
    pc = "post" => resolved

\* C13 as amended: the first login POST of a pass is issued after a lookup
\* that succeeded since the previous login POST, and the later POSTs of the
\* pass are issued without a lookup since the POST before them.
C13_LookupBeforeFirstPostOfPass ==
    pc = "post" => (resolved <=> posts = 0)

C13_Witness ==
    /\ pc = "post"
    /\ posts = 1
    /\ rejects = 1
    /\ ~resolved
    /\ lookup_result = "ok"
    /\ passes = 1

\* C14: in agent mode the login request of every pass after the first carries
\* a nonce field equal to the metadata nonce of the most recent accepted login
\* response.
C14_ReloginCarriesIssuedNonce ==
    (agent /\ passes >= 1 /\ pc = "post")
        => /\ "nonce" \in DOMAIN body
           /\ body.nonce = issued[2][2]

\* C15: a token or nonce file the program created grants nothing to group or
\* others.
C15_FilesOwnerOnly ==
    /\ tokenFile.exists => tokenFile.mode \subseteq {"ur", "uw"}
    /\ nonceFile.exists => nonceFile.mode \subseteq {"ur", "uw"}

\* the steps of one pass in their order; a fatal error may end any of them
PassOrder ==
    {<<"sleep", "lookup">>, <<"lookup", "get_pkcs7">>,
     <<"get_pkcs7", "get_nonce">>, <<"get_nonce", "post">>,
     <<"post", "retry_sleep">>, <<"retry_sleep", "get_pkcs7">>,
     <<"post", "write_token">>, <<"write_token", "write_nonce">>,
     <<"write_nonce", "midpoint">>, <<"midpoint", "sleep">>,
     <<"midpoint", "done">>, <<"get_pkcs7", "panic">>}
    \cup {<<p, "fatal">> : p \in {"lookup", "get_pkcs7", "post",
                                   "write_token", "write_nonce"}}
AfterGate ==
    pc \in {"get_pkcs7", "get_nonce", "post", "retry_sleep",
            "write_token", "write_nonce", "midpoint"}

\* C16: a pass goes through sleep, gate, login attempts, token write, nonce
\* write and renewal-time update in that order; once the gate is passed
\* exactly one lookup of the pass has succeeded, and no lookup is made between
\* the login attempts or after them.
C16_OneGatePerPass ==
    /\ [][pc' # pc => <<pc, pc'>> \in PassOrder]_vars
    /\ [](AfterGate => resolves = 1)
    /\ [][AfterGate => (lookups' = lookups /\ resolves' = resolves)]_vars

C16_Witness ==
    /\ pc = "write_token"
    /\ rejects = 2
    /\ posts = 3
    /\ lookups = 2
    /\ resolves = 1

\* C17: the first pass does not wait before its lookup, and no lookup, identity
\* fetch or login POST of any pass begins before the renewal time the pass
\* before it computed.
C17_NoEarlyLogin ==
    /\ passes = 0 => waited = 0
    /\ pc \in {"lookup", "get_pkcs7", "get_nonce", "post", "retry_sleep"}
         => now >= lease_renewal_time

C17_Witness ==
    /\ agent
    /\ passes = 1
    /\ pc = "post"
    /\ waited = 2
    /\ posts = 0
    /\ now = lease_renewal_time

\* C18: a failed identity fetch comes back to vault_ec2_auth as an error: the
\* process is not stopped inside get_pkcs7.
C18_FetchErrorReturned ==
    cause = "identity_fetch" => pc # "panic"

\* C19: a login is persisted only when its response carried a client token
\* and a metadata nonce: no empty string is about to be written or was written.
C19_NoEmptyStringPersisted ==
    Persisting => (vault_token # "" /\ vault_nonce # "")

\* a pass was ended by an error: the lookup failed with something that is not
\* a DNS error, the identity fetch failed, the login endpoint did not answer
\* or answered with a body that does not decode, or a file write failed
EndedByError ==
    cause \in {"lookup", "identity_fetch", "post_transport", "json_decode",
               "write_token", "write_nonce"}

\* a single run has ended normally, or an agent has run as many passes as the
\* model follows, with the two files holding the accepted response
Settled ==
    \/ ~agent /\ pc = "done" /\ OnDisk = issued
    \/ agent /\ pc = "sleep" /\ passes = MaxPasses /\ OnDisk = issued

\* C20: under weak fairness, unless an error ends a pass, a single run ends
\* normally with the two files holding the token and the nonce of the accepted
\* response, and an agent goes from every pass to a next one that has saved
\* its response, up to the number of passes the model follows.
C20_EventuallyPersisted ==
    /\ <>(Settled \/ EndedByError)
    /\ [](pc = "sleep" /\ passes >= 1 => OnDisk = issued)

C20_Witness ==
    /\ pc = "done"
    /\ ~agent
    /\ lookups = 2
    /\ rejects = 2
    /\ OnDisk = issued
    /\ OnDisk = <<<<TRUE, "T1">>, <<TRUE, "N2">>>>

=============================================================================
